---- MODULE Spec2Model ----
(***************************************************************************)
(* A model of src/main.py: the psycopg2 connection pool behind             *)
(* DatabasePool, execute_sql_query_sync running on worker threads, and the *)
(* run_agent loop of the POST /agent endpoint.                             *)
(*                                                                         *)
(* The specifications share the variables:                                   *)
(*   SpecPool  execute_sql_query_sync called directly by NumCallers        *)
(*             threads, in any lifecycle state of the pool, next to up to  *)
(*             MaxOthers further threads that hold a connection;           *)
(*   Spec      the service: lifespan startup, NumRequests run_agent        *)
(*             requests with one request body and every answer of the      *)
(*             provider, their queries on worker threads, shutdown;        *)
(*   SpecFair  Spec with the fairness of the worker threads;               *)
(*   SpecConc  the service with NumClients concurrent requests, every      *)
(*             request body, and a shorter list of answers;                *)
(*   SpecPair  two requests as in SpecConc, while the clock that           *)
(*             get_instructions reads advances.                            *)
(*                                                                         *)
(* Environment assumption of all: DatabasePool.initialize and              *)
(* DatabasePool.close run only while no thread is inside                   *)
(* execute_sql_query_sync (the ASGI lifespan protocol runs startup before  *)
(* and shutdown after request handling).                                   *)
(***************************************************************************)
EXTENDS Integers, Sequences, FiniteSets, TLC

(* ---------------------------- bounds ---------------------------------- *)

\* Requests followed in detail (Spec).
NumRequests == 1

\* Threads calling execute_sql_query_sync that are followed in detail (SpecPool).
NumCallers == 1

\* Further threads that may hold a pool connection at the same time (SpecPool).
MaxOthers == 20

\* Model calls answered in one run, over all requests (Spec, SpecConc).
MaxModelCalls == 2

\* Concurrent requests followed in detail (SpecConc).
NumClients == 2

\* Minutes that pass during a run (SpecPair).
MaxMinutes == 1

\* Connections of dropped pools that may be open at a time (SpecPool).
MaxOrphaned == 1

(* ------------------------ program constants --------------------------- *)

minconn == 1

maxconn == 20

Requests == 1 .. NumRequests

Callers == 1 .. NumCallers

Clients == 1 .. NumClients

\* Python's None where a string is expected (a query, a message, a result) ...
None == "None"

\* ... and where an object is expected (the pool, a connection).
Null == [null |-> TRUE]

VARIABLES
    pool,          \* DatabasePool._pool: Null, or [closed, idle, used]
    committed,     \* the statements whose effects the database holds
    others,        \* threads not followed in detail that hold a connection
    orphaned,      \* open connections of pools DatabasePool no longer refers to
    tpc,           \* per thread: position inside execute_sql_query_sync
    query,         \* per thread: the argument of execute_sql_query_sync
    conn,          \* per thread: the local conn (Null, or a connection)
    ret,           \* per thread: the value execute_sql_query_sync returned
    exc,           \* per thread: the exception its except clause caught
    cur,           \* per thread: the cursor after execute (description, rows
                   \* fetched), Null before
    phase,         \* lifespan: "startup", "serving", "stopped", "aborted"
    request,       \* per request: the AgentRequest of the call, Null before it
    rpc,           \* per request: position inside run_agent
    conversation_input,  \* per request: the conversation list
    function_calls,      \* per request: the function_call items of the response
    idx,           \* per request: position of the tool loop in function_calls
    calls,         \* per request: model calls made so far
    responses,     \* per request: the outputs of the responses received
    failure,       \* per request: the exception that ended run_agent
    executions,    \* per request: the arguments run_in_threadpool was given
    returned,      \* per request: the text of the value run_agent returned
    answered,      \* model calls the provider has answered, over all requests
    now,           \* datetime.now(), in minutes
    sent           \* per request: the model calls made, as [instructions, input]

poolVars == <<pool, committed, others, orphaned>>
threadVars == <<tpc, query, conn, ret, exc, cur>>
agentVars == <<phase, request, rpc, conversation_input, function_calls, idx, calls,
               responses, failure, executions, returned, answered, now, sent>>
vars == <<pool, committed, others, orphaned, tpc, query, conn, ret, exc, cur, phase, request, rpc,
          conversation_input, function_calls, idx, calls, responses, failure,
          executions, returned, answered, now, sent>>

Threads == DOMAIN tpc

(* ----------------------------- JSON ----------------------------------- *)

\* A result row is a sequence of <<column, value>> pairs (RealDictRow keeps
\* the select order); a value is [t |-> "int" | "str" | "other", v |-> ...],
\* where v of "other" is already str(value).
RECURSIVE json_join(_)
json_join(parts) ==
    IF parts = <<>> THEN ""
    ELSE IF Len(parts) = 1 THEN parts[1]
    ELSE parts[1] \o ", " \o json_join(Tail(parts))

json_quote(s) == "\"" \o s \o "\""

json_scalar(x) ==
    IF x.t = "int" THEN ToString(x.v) ELSE json_quote(x.v)

json_row(row) ==
    "{" \o json_join([i \in 1 .. Len(row) |->
            json_quote(row[i][1]) \o ": " \o json_scalar(row[i][2])]) \o "}"

\* json.dumps of the three values execute_sql_query_sync serialises.
json_dumps(value) ==
    CASE value.kind = "rows" ->
            "[" \o json_join([i \in 1 .. Len(value.rows) |-> json_row(value.rows[i])]) \o "]"
      [] value.kind = "success" ->
            "{\"status\": \"success\", \"message\": " \o json_quote(value.message) \o "}"
      [] value.kind = "error" ->
            "{\"status\": \"error\", \"error\": " \o json_quote(value.error) \o "}"

(* ------------------------ psycopg2 pool ------------------------------- *)

PoolNotInitialized == "Database pool not initialized"
PoolClosed == "connection pool is closed"
PoolExhausted == "connection pool exhausted"
ConnectFailed == "could not connect to server"

\* A connection fresh from psycopg2.connect: open, autocommit off, no
\* transaction.
NewConn == [autocommit |-> FALSE, pending |-> {}, closed |-> FALSE]

\* ThreadedConnectionPool(minconn=1, maxconn=20): minconn connections are
\* opened at construction; used is len(_used).
NewPool == [closed |-> FALSE, idle |-> [i \in 1 .. minconn |-> NewConn], used |-> 0]

\* Mutant of getconn: the check against maxconn is left out.
getconn_uncapped(p, connectOk) ==
    IF p.closed THEN [raised |-> PoolClosed, pool |-> p, conn |-> Null]
    ELSE IF p.idle # <<>> THEN
        [raised |-> None,
         pool |-> [p EXCEPT !.idle = SubSeq(p.idle, 1, Len(p.idle) - 1),
                            !.used = p.used + 1],
         conn |-> p.idle[Len(p.idle)]]
    ELSE IF ~connectOk THEN [raised |-> ConnectFailed, pool |-> p, conn |-> Null]
    ELSE [raised |-> None, pool |-> [p EXCEPT !.used = p.used + 1], conn |-> NewConn]

\* AbstractConnectionPool._getconn under the pool's lock. connectOk tells
\* whether psycopg2.connect succeeds if a new connection is needed.
getconn(p, connectOk) ==
    IF p.closed THEN [raised |-> PoolClosed, pool |-> p, conn |-> Null]
    ELSE IF p.idle # <<>> THEN
        [raised |-> None,
         pool |-> [p EXCEPT !.idle = SubSeq(p.idle, 1, Len(p.idle) - 1),
                            !.used = p.used + 1],
         conn |-> p.idle[Len(p.idle)]]
    ELSE IF p.used = maxconn THEN [raised |-> PoolExhausted, pool |-> p, conn |-> Null]
    ELSE IF ~connectOk THEN [raised |-> ConnectFailed, pool |-> p, conn |-> Null]
    ELSE [raised |-> None, pool |-> [p EXCEPT !.used = p.used + 1], conn |-> NewConn]

\* Mutant of putconn: the connection stays registered as checked out.
putconn_uncounted(p, c) ==
    IF p.closed THEN [raised |-> PoolClosed, pool |-> p]
    ELSE [raised |-> None,
          pool |-> [p EXCEPT
                      !.idle = IF Len(p.idle) < minconn
                               THEN Append(p.idle, [c EXCEPT !.pending = {}])
                               ELSE p.idle]]

\* AbstractConnectionPool._putconn: a connection in a transaction is rolled
\* back; it is kept while fewer than minconn are idle, else closed.
putconn(p, c) ==
    IF p.closed THEN [raised |-> PoolClosed, pool |-> p]
    ELSE [raised |-> None,
          pool |-> [p EXCEPT
                      !.idle = IF Len(p.idle) < minconn
                               THEN Append(p.idle, [c EXCEPT !.pending = {}])
                               ELSE p.idle,
                      !.used = p.used - 1]]

\* DatabasePool.get_conn
get_conn(connectOk) ==
    IF pool = Null THEN [raised |-> PoolNotInitialized, pool |-> pool, conn |-> Null]
    ELSE getconn(pool, connectOk)

\* Mutant of put_conn: the connection is not handed back to the pool.
put_conn_dropped(c) == [raised |-> None, pool |-> pool]

\* DatabasePool.put_conn
put_conn(c) ==
    IF pool = Null THEN [raised |-> None, pool |-> pool]
    ELSE putconn(pool, c)

\* No thread is inside execute_sql_query_sync.
Quiescent ==
    /\ others = 0
    /\ \A t \in Threads : tpc[t] \in {"idle", "returned", "raised"}

\* DatabasePool.initialize: the pool is assigned only if its construction
\* (which connects minconn times) succeeds; otherwise the error is re-raised.
\* The assignment drops the reference to an earlier pool, which is not
\* closed: its connections stay open until the interpreter finalizes them,
\* at once (collected) or later.
initialize(connectOk, collected) ==
    /\ pool' = IF connectOk THEN NewPool ELSE pool
    /\ orphaned' = IF connectOk /\ pool # Null /\ ~pool.closed /\ ~collected
                   THEN orphaned + Len(pool.idle) + pool.used
                   ELSE orphaned
    /\ UNCHANGED <<committed, others>>

\* AbstractConnectionPool._closeall: a closed pool raises PoolError; else
\* every connection of the pool is closed and the pool marked closed.
closeall(p) ==
    IF p.closed THEN [raised |-> PoolClosed, pool |-> p]
    ELSE [raised |-> None,
          pool |-> [p EXCEPT !.closed = TRUE,
                             !.idle = [i \in 1 .. Len(p.idle) |->
                                          [p.idle[i] EXCEPT !.closed = TRUE]]]]

\* Mutant of close: the pool is closed without looking whether there is one.
close_unguarded ==
    IF pool = Null THEN [raised |-> "AttributeError", pool |-> pool]
    ELSE closeall(pool)

\* DatabasePool.close: closeall on an existing pool, else nothing.
close ==
    IF pool = Null THEN [raised |-> None, pool |-> pool]
    ELSE closeall(pool)

(* --------------------------- the driver ------------------------------- *)

SelectOne == "SELECT 1"
DeleteTasks == "DELETE FROM tasks"

SelectProjects == "SELECT id, due_date FROM projects ORDER BY id DESC"
SelectTwice == "SELECT 1 AS a, 2 AS a"

Queries == {SelectOne, DeleteTasks, SelectProjects, SelectTwice, None}

NullQueryError == "argument 1 must be a string or unicode object: got NoneType instead"
ServerError == "server closed the connection unexpectedly"

\* What cur.execute can do with a query: a result set (the description's
\* column names and the tuples of values, in the server's order), no
\* result set, or an exception.
Driver(q) ==
    CASE q = None -> {[kind |-> "raise", error |-> NullQueryError]}
      [] q = SelectOne ->
            {[kind |-> "rows", description |-> <<"?column?">>,
              rows |-> << <<[t |-> "int", v |-> 1]>> >>],
             [kind |-> "raise", error |-> ServerError]}
      [] q = DeleteTasks ->
            {[kind |-> "none"], [kind |-> "raise", error |-> ServerError]}
      [] q = SelectProjects ->
            {[kind |-> "rows", description |-> <<"id", "due_date">>, rows |-> <<>>],
             [kind |-> "rows", description |-> <<"id", "due_date">>,
              rows |-> << <<[t |-> "int", v |-> 2], [t |-> "other", v |-> "2025-02-28"]>>,
                          <<[t |-> "int", v |-> 1], [t |-> "other", v |-> "2025-01-31"]>> >>],
             [kind |-> "raise", error |-> ServerError]}
      [] q = SelectTwice ->
            {[kind |-> "rows", description |-> <<"a", "a">>,
              rows |-> << <<[t |-> "int", v |-> 1], [t |-> "int", v |-> 2]>> >>],
             [kind |-> "raise", error |-> ServerError]}

\* RealDictCursor builds a dict per tuple: one key per column name, at the
\* place of the name's first column, with the value of its last column.
RealDictRow(description, values) ==
    LET n == Len(description)
        firsts == SelectSeq([i \in 1 .. n |-> i],
                            LAMBDA i : \A j \in 1 .. (i - 1) : description[j] # description[i])
        last(c) == CHOOSE i \in 1 .. n :
                      /\ description[i] = c
                      /\ \A j \in (i + 1) .. n : description[j] # c
    IN [k \in 1 .. Len(firsts) |->
          <<description[firsts[k]], values[last(description[firsts[k]])]>>]

\* Mutant of fetchall: the rows come back in reverse order.
fetchall_reversed(out) ==
    [i \in 1 .. Len(out.rows) |->
        RealDictRow(out.description, out.rows[Len(out.rows) + 1 - i])]

\* cur.fetchall(): the rows of the result set, in the server's order.
fetchall(out) ==
    [i \in 1 .. Len(out.rows) |-> RealDictRow(out.description, out.rows[i])]

SuccessValue == [kind |-> "success", message |-> "Query executed successfully."]

ErrorValue(e) == [kind |-> "error", error |-> e]

\* Mutant of ExceptClause: the exception is logged and raised again.
ExceptClauseReraise(e) == [raised |-> TRUE, value |-> None]

\* except Exception as e: return json.dumps({"status": "error", "error": str(e)})
ExceptClause(e) == [raised |-> FALSE, value |-> json_dumps(ErrorValue(e))]

\* conn.autocommit = True
SetAutocommit(c) == [c EXCEPT !.autocommit = TRUE]

(* ------------------- execute_sql_query_sync --------------------------- *)

\* conn = DatabasePool.get_conn(): on an exception the except clause
\* returns and the finally clause finds conn None.
ExecGetConn(t) ==
    /\ tpc[t] = "get_conn"
    /\ \E connectOk \in BOOLEAN :
         LET g == get_conn(connectOk) IN
           IF g.raised # None
           THEN LET x == ExceptClause(g.raised) IN
                /\ tpc' = [tpc EXCEPT ![t] = IF x.raised THEN "raised" ELSE "returned"]
                /\ ret' = [ret EXCEPT ![t] = IF x.raised THEN None ELSE x.value]
                /\ exc' = [exc EXCEPT ![t] = g.raised]
                /\ UNCHANGED <<pool, conn>>
           ELSE /\ pool' = g.pool
                /\ conn' = [conn EXCEPT ![t] = g.conn]
                /\ tpc' = [tpc EXCEPT ![t] = "execute"]
                /\ UNCHANGED <<ret, exc>>
    /\ UNCHANGED <<committed, others, orphaned, query, cur, agentVars>>

\* conn.autocommit = True; cur.execute(query); the result is serialised.
\* With autocommit the statement's effect is committed at once; without,
\* it stays in the connection's open transaction.
ExecRun(t) ==
    /\ tpc[t] = "execute"
    /\ \E out \in Driver(query[t]) :
         LET c == SetAutocommit(conn[t])
             wrote == out.kind = "none"
         IN
         /\ committed' = IF wrote /\ c.autocommit
                         THEN committed \cup {query[t]} ELSE committed
         /\ conn' = [conn EXCEPT ![t] =
                       IF wrote /\ ~c.autocommit
                       THEN [c EXCEPT !.pending = c.pending \cup {query[t]}] ELSE c]
         /\ IF out.kind = "raise"
            THEN LET x == ExceptClause(out.error) IN
                 /\ ret' = [ret EXCEPT ![t] = IF x.raised THEN None ELSE x.value]
                 /\ exc' = [exc EXCEPT ![t] = out.error]
                 /\ tpc' = [tpc EXCEPT ![t] =
                              IF x.raised THEN "finally_raising" ELSE "finally"]
            ELSE /\ ret' = [ret EXCEPT ![t] =
                              IF out.kind = "rows"
                              THEN json_dumps([kind |-> "rows", rows |-> fetchall(out)])
                              ELSE json_dumps(SuccessValue)]
                 /\ tpc' = [tpc EXCEPT ![t] = "finally"]
                 /\ UNCHANGED exc
         /\ cur' = [cur EXCEPT ![t] =
                      IF out.kind = "rows"
                      THEN [has_description |-> TRUE, description |-> out.description,
                            rows |-> fetchall(out)]
                      ELSE [has_description |-> FALSE, description |-> <<>>,
                            rows |-> <<>>]]
    /\ UNCHANGED <<pool, others, orphaned, query, agentVars>>

\* finally: if conn: DatabasePool.put_conn(conn). An exception of put_conn
\* replaces the return value.
ExecFinally(t) ==
    /\ tpc[t] \in {"finally", "finally_raising"}
    /\ LET p == IF conn[t] # Null THEN put_conn(conn[t])
                 ELSE [raised |-> None, pool |-> pool] IN
         /\ pool' = p.pool
         /\ IF p.raised # None \/ tpc[t] = "finally_raising"
            THEN /\ tpc' = [tpc EXCEPT ![t] = "raised"]
                 /\ ret' = [ret EXCEPT ![t] = None]
            ELSE /\ tpc' = [tpc EXCEPT ![t] = "returned"]
                 /\ UNCHANGED ret
         /\ conn' = [conn EXCEPT ![t] = IF p.raised # None THEN conn[t] ELSE Null]
    /\ UNCHANGED <<committed, others, orphaned, query, exc, cur, agentVars>>

(* --------------------- direct use (SpecPool) -------------------------- *)

\* A thread calls execute_sql_query_sync(q).
Call(t, q) ==
    /\ tpc[t] \in {"idle", "returned", "raised"}
    /\ tpc' = [tpc EXCEPT ![t] = "get_conn"]
    /\ query' = [query EXCEPT ![t] = q]
    /\ ret' = [ret EXCEPT ![t] = None]
    /\ exc' = [exc EXCEPT ![t] = None]
    /\ cur' = [cur EXCEPT ![t] = Null]
    /\ UNCHANGED <<poolVars, conn, agentVars>>

\* Another thread's execute_sql_query_sync passes its get_conn ...
OtherGetConn ==
    /\ others < MaxOthers
    /\ pool # Null
    /\ \E connectOk \in BOOLEAN :
         LET g == getconn(pool, connectOk) IN
           /\ g.raised = None
           /\ pool' = g.pool
    /\ others' = others + 1
    /\ UNCHANGED <<committed, orphaned, threadVars, agentVars>>

\* ... and its finally clause.
OtherPutConn ==
    /\ others > 0
    /\ LET p == put_conn(SetAutocommit(NewConn)) IN
         /\ p.raised = None
         /\ pool' = p.pool
    /\ others' = others - 1
    /\ UNCHANGED <<committed, orphaned, threadVars, agentVars>>

Initialize ==
    /\ Quiescent
    /\ orphaned < MaxOrphaned
    /\ \E connectOk, collected \in BOOLEAN : initialize(connectOk, collected)
    /\ UNCHANGED <<threadVars, agentVars>>

\* The interpreter finalizes the connections of the pools dropped.
Finalize ==
    /\ orphaned > 0
    /\ orphaned' = 0
    /\ UNCHANGED <<pool, committed, others, threadVars, agentVars>>

Close ==
    /\ Quiescent
    /\ pool' = close.pool
    /\ UNCHANGED <<committed, others, orphaned, threadVars, agentVars>>

InitPool ==
    /\ pool = Null
    /\ committed = {}
    /\ others = 0
    /\ orphaned = 0
    /\ tpc = [t \in Callers |-> "idle"]
    /\ query = [t \in Callers |-> None]
    /\ conn = [t \in Callers |-> Null]
    /\ ret = [t \in Callers |-> None]
    /\ exc = [t \in Callers |-> None]
    /\ cur = [t \in Callers |-> Null]
    /\ phase = "direct"
    /\ request = [r \in Callers |-> Null]
    /\ rpc = [r \in Callers |-> "idle"]
    /\ conversation_input = [r \in Callers |-> <<>>]
    /\ function_calls = [r \in Callers |-> <<>>]
    /\ idx = [r \in Callers |-> 0]
    /\ calls = [r \in Callers |-> 0]
    /\ responses = [r \in Callers |-> <<>>]
    /\ failure = [r \in Callers |-> None]
    /\ executions = [r \in Callers |-> <<>>]
    /\ returned = [r \in Callers |-> None]
    /\ answered = 0
    /\ now = 0
    /\ sent = [r \in Callers |-> <<>>]

NextPool ==
    \/ Initialize
    \/ Close
    \/ Finalize
    \/ OtherGetConn
    \/ OtherPutConn
    \/ \E t \in Callers, q \in Queries : Call(t, q)
    \/ \E t \in Callers : ExecGetConn(t)
    \/ \E t \in Callers : ExecRun(t)
    \/ \E t \in Callers : ExecFinally(t)

SpecPool == InitPool /\ [][NextPool]_vars

(* ------------------ execute_sql_query_sync: claims -------------------- *)

\* The text of {"status": "error", "error": <message>}.
ErrorJson(message) == "{\"status\": \"error\", \"error\": \"" \o message \o "\"}"

SuccessJson == "{\"status\": \"success\", \"message\": \"Query executed successfully.\"}"

SelectOneJson == "[{\"?column?\": 1}]"

NoRowsJson == "[]"

ProjectsJson ==
    "[{\"id\": 2, \"due_date\": \"2025-02-28\"}, {\"id\": 1, \"due_date\": \"2025-01-31\"}]"

SelectTwiceJson == "[{\"a\": 2}]"

\* The texts of the results of the statements considered.
ResultTexts == {SuccessJson, SelectOneJson, NoRowsJson, ProjectsJson, SelectTwiceJson}

\* C1: execute_sql_query_sync never raises to its caller: whatever the
\* query (None included) and whatever the pool's state at the call (no
\* pool, closed, exhausted, a failing connect, a driver error), the call
\* returns a JSON text, and a failure is returned as
\* {"status": "error", "error": <message of the exception>}.
C1_NeverRaises ==
    \A t \in Threads :
        /\ tpc[t] \notin {"raised", "finally_raising"}
        /\ tpc[t] = "returned" =>
              IF exc[t] # None THEN ret[t] = ErrorJson(exc[t])
              ELSE ret[t] \in ResultTexts

\* A call with a null query that found the pool exhausted has returned.
C1_Witness ==
    \E t \in Threads :
        /\ tpc[t] = "returned"
        /\ query[t] = None
        /\ exc[t] = PoolExhausted
        /\ ret[t] = ErrorJson(PoolExhausted)

\* The threads that hold a connection between get_conn and put_conn.
Holders == {t \in Threads : conn[t] # Null}

\* C2: every connection execute_sql_query_sync acquires is returned on
\* every exit path: the pool's checked-out count is exactly the number of
\* calls still between get_conn and the finally clause, a call that has
\* completed holds none, and with every call completed none is checked out.
C2_AlwaysReleased ==
    /\ \A t \in Threads : tpc[t] \in {"idle", "returned", "raised"} => conn[t] = Null
    /\ pool # Null => pool.used = others + Cardinality(Holders)
    /\ (Quiescent /\ pool # Null) => pool.used = 0

\* A call that failed in the driver has completed while other queries were
\* running, and only their connections are checked out.
C2_Witness ==
    \E t \in Threads :
        /\ tpc[t] = "returned"
        /\ exc[t] = ServerError
        /\ others > 0
        /\ pool.used = others

\* C3 (as claimed): a query that finds maxconn connections checked out
\* waits for a release and then executes normally; it is never turned into
\* an error result.
C3_ExhaustedNeverAnError ==
    \A t \in Threads : ~(tpc[t] = "returned" /\ exc[t] = PoolExhausted)

\* C4: at most maxconn connections are checked out, and at most maxconn
\* are open (checked out or idle), in every reachable state.
C4_AtMostMaxconn ==
    pool # Null => /\ pool.used <= maxconn
                   /\ pool.used + Len(pool.idle) <= maxconn

\* maxconn connections are checked out and a further query has asked.
C4_Witness ==
    /\ pool # Null
    /\ pool.used = maxconn
    /\ \E t \in Threads : exc[t] = PoolExhausted

(* ----------------------- the model provider --------------------------- *)

RunDatabaseQuery == "run_database_query"
OtherFunction == "lookup_weather"

\* The bodies POST /agent may carry: query is required, session_id is
\* optional and defaults to None.
UserQuery == "What is 2+2?"
OtherQuery == "How many tasks are open?"

SessionId == "session-7"

AgentRequests ==
    { [query |-> UserQuery, session_id |-> None],
      [query |-> UserQuery, session_id |-> SessionId],
      [query |-> OtherQuery, session_id |-> SessionId] }

\* A body without session_id.
DefaultRequest == [query |-> UserQuery, session_id |-> None]

\* The arguments strings the model may emit.
ArgQuery(q) == "{\"query\": " \o json_quote(q) \o "}"
ArgEmpty == "{}"
ArgList == "[1]"
ArgTruncated == "{\"query\": \"SELECT"

\* Mutant of json_loads: undecodable arguments are read as an empty object.
json_loads_lenient(s) ==
    IF \E q \in Queries \ {None} : s = ArgQuery(q)
    THEN [raised |-> FALSE,
          value |-> [t |-> "dict",
                     query |-> CHOOSE q \in Queries \ {None} : s = ArgQuery(q)]]
    ELSE IF s = ArgList THEN [raised |-> FALSE, value |-> [t |-> "list"]]
    ELSE [raised |-> FALSE, value |-> [t |-> "dict"]]

\* json.loads on those strings: the decoded value, or JSONDecodeError.
json_loads(s) ==
    IF \E q \in Queries \ {None} : s = ArgQuery(q)
    THEN [raised |-> FALSE,
          value |-> [t |-> "dict",
                     query |-> CHOOSE q \in Queries \ {None} : s = ArgQuery(q)]]
    ELSE IF s = ArgEmpty THEN [raised |-> FALSE, value |-> [t |-> "dict"]]
    ELSE IF s = ArgList THEN [raised |-> FALSE, value |-> [t |-> "list"]]
    ELSE [raised |-> TRUE, value |-> Null]

\* args.get("query"): the field or None on a dict, AttributeError otherwise.
args_get_query(args) ==
    IF args.t # "dict" THEN [raised |-> TRUE, value |-> None]
    ELSE IF "query" \in DOMAIN args THEN [raised |-> FALSE, value |-> args.query]
    ELSE [raised |-> FALSE, value |-> None]

\* get_instructions(): the role, the current date to the minute, the
\* schema and the three instructions.
get_instructions(minute) == [date |-> minute, schema |-> "DB_SCHEMA"]

\* The arguments of aclient.responses.create that vary (model and tools are
\* constants).
ModelCall(minute, input) == [instructions |-> get_instructions(minute), input |-> input]

Message(text) == [type |-> "message", content |-> text]
WebSearchCall == [type |-> "web_search_call"]
FunctionCall(name, arguments) ==
    [type |-> "function_call", name |-> name, arguments |-> arguments]

\* The outputs the provider may answer with (call_ids are given per call).
Outputs ==
    { << Message("4") >>,
      << WebSearchCall, Message("Done") >>,
      << FunctionCall(RunDatabaseQuery, ArgQuery(SelectOne)) >>,
      << Message("Checking"),
         FunctionCall(RunDatabaseQuery, ArgQuery(DeleteTasks)),
         FunctionCall(OtherFunction, ArgEmpty),
         FunctionCall(RunDatabaseQuery, ArgEmpty) >>,
      << FunctionCall(RunDatabaseQuery, ArgQuery(DeleteTasks)),
         FunctionCall(RunDatabaseQuery, ArgTruncated),
         FunctionCall(RunDatabaseQuery, ArgQuery(SelectOne)) >>,
      << FunctionCall(OtherFunction, ArgEmpty) >>,
      << FunctionCall(RunDatabaseQuery, ArgList) >> }

\* The provider's call_id of item i of the answer to a request's n-th call.
CallId(n, i) == "call_" \o ToString(n) \o "_" \o ToString(i)

WithCallIds(output, n) ==
    [i \in 1 .. Len(output) |->
        IF output[i].type = "function_call"
        THEN [type |-> "function_call", call_id |-> CallId(n, i),
              name |-> output[i].name, arguments |-> output[i].arguments]
        ELSE output[i]]

\* Mutant of output_text: only the first output item is looked at.
output_text_first(output) ==
    IF output # <<>> /\ Head(output).type = "message" THEN Head(output).content ELSE ""

\* response.output_text: the text of the message items, concatenated.
RECURSIVE output_text(_)
output_text(output) ==
    IF output = <<>> THEN ""
    ELSE (IF Head(output).type = "message" THEN Head(output).content ELSE "")
         \o output_text(Tail(output))

(* ----------------------------- run_agent ------------------------------ *)

IsFunctionCall(item) == item.type = "function_call"

\* Mutant of HistoryOf: the function_call records are put before the
\* assistant messages.
HistoryOfCallsFirst(output) ==
    LET calls_ == SelectSeq(output, LAMBDA it : it.type = "function_call")
        texts == SelectSeq(output, LAMBDA it : it.type = "message")
    IN [i \in 1 .. Len(calls_) |->
           [type |-> "function_call", call_id |-> calls_[i].call_id,
            function |-> [name |-> calls_[i].name, arguments |-> calls_[i].arguments]]]
       \o [i \in 1 .. Len(texts) |-> [role |-> "assistant", content |-> texts[i].content]]

\* for item in response.output: append the message and function_call items.
RECURSIVE HistoryOf(_)
HistoryOf(output) ==
    IF output = <<>> THEN <<>>
    ELSE LET item == Head(output)
             rest == HistoryOf(Tail(output))
         IN
         IF item.type = "message"
         THEN <<[role |-> "assistant", content |-> item.content]>> \o rest
         ELSE IF item.type = "function_call"
         THEN <<[type |-> "function_call", call_id |-> item.call_id,
                 function |-> [name |-> item.name, arguments |-> item.arguments]]>> \o rest
         ELSE rest

\* Mutant of NextQueryCall: the function's name is not looked at.
NextQueryCallAnyName(fcs, i) == IF i > Len(fcs) THEN 0 ELSE i

\* The first position from i on whose call names run_database_query, or 0.
RECURSIVE NextQueryCall(_, _)
NextQueryCall(fcs, i) ==
    IF i > Len(fcs) THEN 0
    ELSE IF fcs[i].name = RunDatabaseQuery THEN i
    ELSE NextQueryCall(fcs, i + 1)

\* Mutant of ToolLoop: after its second model call run_agent gives up and
\* returns instead of calling the model again.
ToolLoopCapped(r, fcs, i) ==
    LET j == NextQueryCall(fcs, i) IN
    IF j = 0
    THEN /\ rpc' = [rpc EXCEPT ![r] = IF calls[r] >= 2 THEN "done" ELSE "await_model"]
         /\ calls' = [calls EXCEPT ![r] = IF calls[r] >= 2 THEN @ ELSE @ + 1]
         /\ sent' = [sent EXCEPT ![r] =
                       IF calls[r] >= 2 THEN @
                       ELSE Append(@, ModelCall(now, conversation_input'[r]))]
         /\ idx' = [idx EXCEPT ![r] = 0]
         /\ tpc' = [tpc EXCEPT ![r] = "idle"]
         /\ UNCHANGED <<executions, query, ret, exc, cur, failure>>
    ELSE LET args == json_loads(fcs[j].arguments)
             sql_query == IF args.raised THEN args
                          ELSE args_get_query(args.value)
         IN
         IF sql_query.raised
         THEN /\ rpc' = [rpc EXCEPT ![r] = "failed"]
              /\ failure' = [failure EXCEPT ![r] =
                                IF args.raised THEN "JSONDecodeError" ELSE "AttributeError"]
              /\ idx' = [idx EXCEPT ![r] = j]
              /\ tpc' = [tpc EXCEPT ![r] = "idle"]
              /\ UNCHANGED <<calls, sent, executions, query, ret, exc, cur>>
         ELSE /\ rpc' = [rpc EXCEPT ![r] = "await_query"]
              /\ idx' = [idx EXCEPT ![r] = j]
              /\ executions' = [executions EXCEPT ![r] = Append(@, sql_query.value)]
              /\ tpc' = [tpc EXCEPT ![r] = "get_conn"]
              /\ query' = [query EXCEPT ![r] = sql_query.value]
              /\ ret' = [ret EXCEPT ![r] = None]
              /\ exc' = [exc EXCEPT ![r] = None]
              /\ cur' = [cur EXCEPT ![r] = Null]
              /\ UNCHANGED <<calls, sent, failure>>

\* for call in function_calls, from position i up to the next await: calls of
\* other functions are skipped; at a run_database_query call the arguments
\* are decoded and the query is handed to run_in_threadpool; past the last
\* call the while loop calls the model again. The request's worker thread
\* is idle unless a query was handed to it.
ToolLoop(r, fcs, i) ==
    LET j == NextQueryCall(fcs, i) IN
    IF j = 0
    THEN /\ rpc' = [rpc EXCEPT ![r] = "await_model"]
         /\ calls' = [calls EXCEPT ![r] = calls[r] + 1]
         /\ sent' = [sent EXCEPT ![r] = Append(@, ModelCall(now, conversation_input'[r]))]
         /\ idx' = [idx EXCEPT ![r] = 0]
         /\ tpc' = [tpc EXCEPT ![r] = "idle"]
         /\ UNCHANGED <<executions, query, ret, exc, cur, failure>>
    ELSE LET args == json_loads(fcs[j].arguments)
             sql_query == IF args.raised THEN args
                          ELSE args_get_query(args.value)
         IN
         IF sql_query.raised
         THEN /\ rpc' = [rpc EXCEPT ![r] = "failed"]
              /\ failure' = [failure EXCEPT ![r] =
                                IF args.raised THEN "JSONDecodeError" ELSE "AttributeError"]
              /\ idx' = [idx EXCEPT ![r] = j]
              /\ tpc' = [tpc EXCEPT ![r] = "idle"]
              /\ UNCHANGED <<calls, sent, executions, query, ret, exc, cur>>
         ELSE /\ rpc' = [rpc EXCEPT ![r] = "await_query"]
              /\ idx' = [idx EXCEPT ![r] = j]
              /\ executions' = [executions EXCEPT ![r] = Append(@, sql_query.value)]
              /\ tpc' = [tpc EXCEPT ![r] = "get_conn"]
              /\ query' = [query EXCEPT ![r] = sql_query.value]
              /\ ret' = [ret EXCEPT ![r] = None]
              /\ exc' = [exc EXCEPT ![r] = None]
              /\ cur' = [cur EXCEPT ![r] = Null]
              /\ UNCHANGED <<calls, sent, failure>>

\* Mutant of Arrive: the session_id is made part of the user turn.
ArriveWithSession(r, req) ==
    /\ phase = "serving"
    /\ rpc[r] = "idle"
    /\ request' = [request EXCEPT ![r] = req]
    /\ rpc' = [rpc EXCEPT ![r] = "await_model"]
    /\ conversation_input' = [conversation_input EXCEPT ![r] =
          <<[role |-> "user",
             content |-> IF req.session_id = None THEN req.query
                         ELSE "[" \o req.session_id \o "] " \o req.query]>>]
    /\ calls' = [calls EXCEPT ![r] = 1]
    /\ sent' = [sent EXCEPT ![r] = <<ModelCall(now, conversation_input'[r])>>]
    /\ UNCHANGED <<poolVars, threadVars, phase, function_calls, idx, responses,
                   failure, executions, returned, answered, now>>

\* Mutant of Arrive: the conversation is one list shared by all requests.
ArriveShared(r, req) ==
    /\ phase = "serving"
    /\ rpc[r] = "idle"
    /\ request' = [request EXCEPT ![r] = req]
    /\ rpc' = [rpc EXCEPT ![r] = "await_model"]
    /\ conversation_input' =
          [c \in DOMAIN conversation_input |->
              IF c = r \/ conversation_input[c] # <<>>
              THEN Append(conversation_input[c], [role |-> "user", content |-> req.query])
              ELSE conversation_input[c]]
    /\ calls' = [calls EXCEPT ![r] = 1]
    /\ sent' = [sent EXCEPT ![r] = <<ModelCall(now, conversation_input'[r])>>]
    /\ UNCHANGED <<poolVars, threadVars, phase, function_calls, idx, responses,
                   failure, executions, returned, answered, now>>

\* POST /agent with the body req: the conversation is seeded with
\* req.query and the first model call made. req.session_id is not read.
Arrive(r, req) ==
    /\ phase = "serving"
    /\ rpc[r] = "idle"
    /\ request' = [request EXCEPT ![r] = req]
    /\ rpc' = [rpc EXCEPT ![r] = "await_model"]
    /\ conversation_input' = [conversation_input EXCEPT ![r] =
                                <<[role |-> "user", content |-> req.query]>>]
    /\ calls' = [calls EXCEPT ![r] = 1]
    /\ sent' = [sent EXCEPT ![r] = <<ModelCall(now, conversation_input'[r])>>]
    /\ UNCHANGED <<poolVars, threadVars, phase, function_calls, idx, responses,
                   failure, executions, returned, answered, now>>

\* Mutant of ModelResponds: queries run on the event loop, which serves no
\* other request while one of them is executing.
ModelRespondsBlocked(r, out) ==
    /\ rpc[r] = "await_model"
    /\ \A t \in Threads : tpc[t] \in {"idle", "returned", "raised"}
    /\ answered < MaxModelCalls
    /\ answered' = answered + 1
    /\ responses' = [responses EXCEPT ![r] = Append(@, WithCallIds(out, calls[r]))]
    /\ LET output == WithCallIds(out, calls[r])
           fcs == SelectSeq(output, IsFunctionCall)
       IN
       IF fcs = <<>>
       THEN /\ rpc' = [rpc EXCEPT ![r] = "done"]
            /\ returned' = [returned EXCEPT ![r] = output_text(output)]
            /\ UNCHANGED <<conversation_input, function_calls, idx, calls, sent,
                           executions, failure, tpc, query, ret, exc, cur>>
       ELSE /\ conversation_input' = [conversation_input EXCEPT ![r] =
                                        @ \o HistoryOf(output)]
            /\ function_calls' = [function_calls EXCEPT ![r] = fcs]
            /\ ToolLoop(r, fcs, 1)
            /\ UNCHANGED returned
    /\ UNCHANGED <<poolVars, conn, phase, request, now>>

\* aclient.responses.create returns: without function calls run_agent
\* returns the output text; otherwise the history is extended and the tool
\* loop starts.
ModelResponds(r, out) ==
    /\ rpc[r] = "await_model"
    /\ answered < MaxModelCalls
    /\ answered' = answered + 1
    /\ responses' = [responses EXCEPT ![r] = Append(@, WithCallIds(out, calls[r]))]
    /\ LET output == WithCallIds(out, calls[r])
           fcs == SelectSeq(output, IsFunctionCall)
       IN
       IF fcs = <<>>
       THEN /\ rpc' = [rpc EXCEPT ![r] = "done"]
            /\ returned' = [returned EXCEPT ![r] = output_text(output)]
            /\ UNCHANGED <<conversation_input, function_calls, idx, calls, sent,
                           executions, failure, tpc, query, ret, exc, cur>>
       ELSE /\ conversation_input' = [conversation_input EXCEPT ![r] =
                                        @ \o HistoryOf(output)]
            /\ function_calls' = [function_calls EXCEPT ![r] = fcs]
            /\ ToolLoop(r, fcs, 1)
            /\ UNCHANGED returned
    /\ UNCHANGED <<poolVars, conn, phase, request, now>>

\* Mutant of ModelFails: the failed call is made again.
ModelFailsRetried(r) ==
    /\ rpc[r] = "await_model"
    /\ answered < MaxModelCalls
    /\ answered' = answered + 1
    /\ failure' = [failure EXCEPT ![r] = "APIError"]
    /\ calls' = [calls EXCEPT ![r] = @ + 1]
    /\ sent' = [sent EXCEPT ![r] = Append(@, ModelCall(now, conversation_input[r]))]
    /\ UNCHANGED <<poolVars, threadVars, phase, request, rpc, conversation_input,
                   function_calls, idx, responses, executions, returned, now>>

\* aclient.responses.create raises: nothing catches it.
ModelFails(r) ==
    /\ rpc[r] = "await_model"
    /\ answered < MaxModelCalls
    /\ answered' = answered + 1
    /\ rpc' = [rpc EXCEPT ![r] = "failed"]
    /\ failure' = [failure EXCEPT ![r] = "APIError"]
    /\ UNCHANGED <<poolVars, threadVars, phase, request, conversation_input,
                   function_calls, idx, calls, responses, executions, returned, now,
                   sent>>

\* Mutant of QueryReturns: the result is put in the place of the
\* conversation's last record.
QueryReturnsReplacing(r) ==
    /\ rpc[r] = "await_query"
    /\ tpc[r] \in {"returned", "raised"}
    /\ IF tpc[r] = "raised"
       THEN /\ rpc' = [rpc EXCEPT ![r] = "failed"]
            /\ failure' = [failure EXCEPT ![r] = "PoolError"]
            /\ tpc' = [tpc EXCEPT ![r] = "idle"]
            /\ UNCHANGED <<conversation_input, idx, calls, sent, executions, query, ret,
                           exc, cur>>
       ELSE /\ conversation_input' = [conversation_input EXCEPT ![r] =
                 Append(SubSeq(@, 1, Len(@) - 1),
                        [type |-> "function_call_output",
                         call_id |-> function_calls[r][idx[r]].call_id,
                         output |-> ret[r]])]
            /\ ToolLoop(r, function_calls[r], idx[r] + 1)
    /\ UNCHANGED <<poolVars, conn, phase, request, function_calls, responses, returned,
                   answered, now>>

\* Mutant of QueryReturns: an error result is raised as an HTTP error.
QueryReturnsRaising(r) ==
    /\ rpc[r] = "await_query"
    /\ tpc[r] \in {"returned", "raised"}
    /\ IF tpc[r] = "raised" \/ exc[r] # None
       THEN /\ rpc' = [rpc EXCEPT ![r] = "failed"]
            /\ failure' = [failure EXCEPT ![r] = "HTTPException"]
            /\ tpc' = [tpc EXCEPT ![r] = "idle"]
            /\ UNCHANGED <<conversation_input, idx, calls, sent, executions, query, ret,
                           exc, cur>>
       ELSE /\ conversation_input' = [conversation_input EXCEPT ![r] =
                 Append(@, [type |-> "function_call_output",
                            call_id |-> function_calls[r][idx[r]].call_id,
                            output |-> ret[r]])]
            /\ ToolLoop(r, function_calls[r], idx[r] + 1)
    /\ UNCHANGED <<poolVars, conn, phase, request, function_calls, responses, returned,
                   answered, now>>

\* await run_in_threadpool(...) completes: the result is appended under the
\* call's call_id and the tool loop goes on; an exception of the thread
\* propagates.
QueryReturns(r) ==
    /\ rpc[r] = "await_query"
    /\ tpc[r] \in {"returned", "raised"}
    /\ IF tpc[r] = "raised"
       THEN /\ rpc' = [rpc EXCEPT ![r] = "failed"]
            /\ failure' = [failure EXCEPT ![r] = "PoolError"]
            /\ tpc' = [tpc EXCEPT ![r] = "idle"]
            /\ UNCHANGED <<conversation_input, idx, calls, sent, executions, query, ret,
                           exc, cur>>
       ELSE /\ conversation_input' = [conversation_input EXCEPT ![r] =
                 Append(@, [type |-> "function_call_output",
                            call_id |-> function_calls[r][idx[r]].call_id,
                            output |-> ret[r]])]
            /\ ToolLoop(r, function_calls[r], idx[r] + 1)
    /\ UNCHANGED <<poolVars, conn, phase, request, function_calls, responses, returned,
                   answered, now>>

(* ----------------------------- lifespan ------------------------------- *)

\* lifespan before the yield: DatabasePool.initialize(); its exception
\* aborts the startup.
LifespanStartup ==
    /\ phase = "startup"
    /\ \E connectOk, collected \in BOOLEAN :
         /\ initialize(connectOk, collected)
         /\ phase' = IF connectOk THEN "serving" ELSE "aborted"
    /\ UNCHANGED <<threadVars, request, rpc, conversation_input, function_calls, idx,
                   calls, responses, failure, executions, returned, answered, now, sent>>

\* lifespan after the yield, once the server has no request in flight:
\* DatabasePool.close().
LifespanShutdown ==
    /\ phase = "serving"
    /\ \A r \in DOMAIN rpc : rpc[r] \in {"idle", "done", "failed"}
    /\ Quiescent
    /\ pool' = close.pool
    /\ phase' = "stopped"
    /\ UNCHANGED <<committed, others, orphaned>>
    /\ UNCHANGED <<threadVars, request, rpc, conversation_input, function_calls, idx,
                   calls, responses, failure, executions, returned, answered, now, sent>>

Init ==
    /\ pool = Null
    /\ committed = {}
    /\ others = 0
    /\ orphaned = 0
    /\ tpc = [t \in Requests |-> "idle"]
    /\ query = [t \in Requests |-> None]
    /\ conn = [t \in Requests |-> Null]
    /\ ret = [t \in Requests |-> None]
    /\ exc = [t \in Requests |-> None]
    /\ cur = [t \in Requests |-> Null]
    /\ phase = "startup"
    /\ request = [r \in Requests |-> Null]
    /\ rpc = [r \in Requests |-> "idle"]
    /\ conversation_input = [r \in Requests |-> <<>>]
    /\ function_calls = [r \in Requests |-> <<>>]
    /\ idx = [r \in Requests |-> 0]
    /\ calls = [r \in Requests |-> 0]
    /\ responses = [r \in Requests |-> <<>>]
    /\ failure = [r \in Requests |-> None]
    /\ executions = [r \in Requests |-> <<>>]
    /\ returned = [r \in Requests |-> None]
    /\ answered = 0
    /\ now = 0
    /\ sent = [r \in Requests |-> <<>>]

Next ==
    \/ LifespanStartup
    \/ LifespanShutdown
    \/ \E r \in Requests : Arrive(r, DefaultRequest)
    \/ \E r \in Requests, out \in Outputs : ModelResponds(r, out)
    \/ \E r \in Requests : ModelFails(r)
    \/ \E r \in Requests : ExecGetConn(r)
    \/ \E r \in Requests : ExecRun(r)
    \/ \E r \in Requests : ExecFinally(r)
    \/ \E r \in Requests : QueryReturns(r)

Spec == Init /\ [][Next]_vars

\* run_in_threadpool runs the worker thread of a dispatched query to the end
\* of execute_sql_query_sync, and the event loop then resumes the coroutine
\* that awaits it. Nothing is assumed of the provider.
SpecFair ==
    /\ Spec
    /\ \A r \in Requests :
          /\ WF_vars(ExecGetConn(r))
          /\ WF_vars(ExecRun(r))
          /\ WF_vars(ExecFinally(r))
          /\ WF_vars(QueryReturns(r))

(* ---------------------- concurrent requests --------------------------- *)

\* What the provider answers with in SpecConc: a final text, or a tool
\* request (whose statement yields its rows or an error).
ConcOutputs ==
    { << Message("4") >>,
      << Message("Checking"),
         FunctionCall(RunDatabaseQuery, ArgQuery(SelectOne)) >> }

InitConc ==
    /\ pool = Null
    /\ committed = {}
    /\ others = 0
    /\ orphaned = 0
    /\ tpc = [t \in Clients |-> "idle"]
    /\ query = [t \in Clients |-> None]
    /\ conn = [t \in Clients |-> Null]
    /\ ret = [t \in Clients |-> None]
    /\ exc = [t \in Clients |-> None]
    /\ cur = [t \in Clients |-> Null]
    /\ phase = "startup"
    /\ request = [r \in Clients |-> Null]
    /\ rpc = [r \in Clients |-> "idle"]
    /\ conversation_input = [r \in Clients |-> <<>>]
    /\ function_calls = [r \in Clients |-> <<>>]
    /\ idx = [r \in Clients |-> 0]
    /\ calls = [r \in Clients |-> 0]
    /\ responses = [r \in Clients |-> <<>>]
    /\ failure = [r \in Clients |-> None]
    /\ executions = [r \in Clients |-> <<>>]
    /\ returned = [r \in Clients |-> None]
    /\ answered = 0
    /\ now = 0
    /\ sent = [r \in Clients |-> <<>>]

NextConc ==
    \/ LifespanStartup
    \/ LifespanShutdown
    \/ \E r \in Clients, req \in AgentRequests : Arrive(r, req)
    \/ \E r \in Clients, out \in ConcOutputs : ModelResponds(r, out)
    \/ \E r \in Clients : ModelFails(r)
    \/ \E r \in Clients : ExecGetConn(r)
    \/ \E r \in Clients : ExecRun(r)
    \/ \E r \in Clients : ExecFinally(r)
    \/ \E r \in Clients : QueryReturns(r)

SpecConc == InitConc /\ [][NextConc]_vars

(* ------------------------ a pair of requests ------------------------- *)

\* Two requests, side by side or one after the other, while time passes.
Pair == {1, 2}

\* A minute passes.
Tick ==
    /\ now < MaxMinutes
    /\ now' = now + 1
    /\ UNCHANGED <<poolVars, threadVars, phase, request, rpc, conversation_input,
                   function_calls, idx, calls, responses, failure, executions,
                   returned, answered, sent>>

InitPair ==
    /\ pool = Null
    /\ committed = {}
    /\ others = 0
    /\ orphaned = 0
    /\ tpc = [t \in Pair |-> "idle"]
    /\ query = [t \in Pair |-> None]
    /\ conn = [t \in Pair |-> Null]
    /\ ret = [t \in Pair |-> None]
    /\ exc = [t \in Pair |-> None]
    /\ cur = [t \in Pair |-> Null]
    /\ phase = "startup"
    /\ request = [r \in Pair |-> Null]
    /\ rpc = [r \in Pair |-> "idle"]
    /\ conversation_input = [r \in Pair |-> <<>>]
    /\ function_calls = [r \in Pair |-> <<>>]
    /\ idx = [r \in Pair |-> 0]
    /\ calls = [r \in Pair |-> 0]
    /\ responses = [r \in Pair |-> <<>>]
    /\ failure = [r \in Pair |-> None]
    /\ executions = [r \in Pair |-> <<>>]
    /\ returned = [r \in Pair |-> None]
    /\ answered = 0
    /\ now = 0
    /\ sent = [r \in Pair |-> <<>>]

NextPair ==
    \/ LifespanStartup
    \/ LifespanShutdown
    \/ Tick
    \/ \E r \in Pair, req \in AgentRequests : Arrive(r, req)
    \/ \E r \in Pair, out \in ConcOutputs : ModelResponds(r, out)
    \/ \E r \in Pair : ModelFails(r)
    \/ \E r \in Pair : ExecGetConn(r)
    \/ \E r \in Pair : ExecRun(r)
    \/ \E r \in Pair : ExecFinally(r)
    \/ \E r \in Pair : QueryReturns(r)

SpecPair == InitPair /\ [][NextPair]_vars

(* ------------------------- run_agent: claims -------------------------- *)

Last(seq) == seq[Len(seq)]

\* An output holds a function_call item.
HasCall(output) == \E i \in 1 .. Len(output) : output[i].type = "function_call"

\* An item is an invocation of run_database_query.
IsQueryCall(item) ==
    item.type = "function_call" /\ item.name = "run_database_query"

\* The arguments texts that decode to a JSON object, and their query field.
ObjectArguments ==
    {"{\"query\": \"SELECT 1\"}", "{\"query\": \"DELETE FROM tasks\"}", "{}"}

QueryField(arguments) ==
    CASE arguments = "{\"query\": \"SELECT 1\"}" -> "SELECT 1"
      [] arguments = "{\"query\": \"DELETE FROM tasks\"}" -> "DELETE FROM tasks"
      [] OTHER -> None

\* The query fields of the run_database_query invocations of an output, in
\* emission order, and of a sequence of outputs.
RECURSIVE QueriesOf(_)
QueriesOf(output) ==
    IF output = <<>> THEN <<>>
    ELSE (IF IsQueryCall(Head(output))
          THEN <<QueryField(Head(output).arguments)>> ELSE <<>>)
         \o QueriesOf(Tail(output))

RECURSIVE AllQueriesOf(_)
AllQueriesOf(outputs) ==
    IF outputs = <<>> THEN <<>>
    ELSE QueriesOf(Head(outputs)) \o AllQueriesOf(Tail(outputs))

IsPrefix(a, b) == Len(a) <= Len(b) /\ SubSeq(b, 1, Len(a)) = a

\* Every run_database_query invocation received so far decodes to an object.
AllDecodable(outputs) ==
    \A k \in 1 .. Len(outputs) : \A i \in 1 .. Len(outputs[k]) :
        IsQueryCall(outputs[k][i]) => outputs[k][i].arguments \in ObjectArguments

\* The responses received so far that held tool invocations.
ToolRounds(outputs) == Cardinality({k \in 1 .. Len(outputs) : HasCall(outputs[k])})

\* The text of the final answers the provider may give.
FinalText(output) ==
    CASE output = <<[type |-> "message", content |-> "4"]>> -> "4"
      [] output = <<[type |-> "web_search_call"],
                    [type |-> "message", content |-> "Done"]>> -> "Done"
      [] OTHER -> None

\* C5: when the first response holds no function_call item, run_agent ends
\* after exactly one model call, without any execution and without a pool
\* connection, and returns that response's output text.
C5_FirstAnswerFinal ==
    \A r \in Requests :
        (responses[r] # <<>> /\ ~HasCall(responses[r][1])) =>
            /\ rpc[r] = "done"
            /\ calls[r] = 1
            /\ Len(responses[r]) = 1
            /\ executions[r] = <<>>
            /\ query[r] = None /\ tpc[r] = "idle" /\ conn[r] = Null
            /\ returned[r] # None
            /\ returned[r] = FinalText(responses[r][1])

\* A request was answered "Done" after a web search, at its first call.
C5_Witness ==
    \E r \in Requests :
        /\ rpc[r] = "done"
        /\ Len(responses[r]) = 1
        /\ returned[r] = "Done"

\* What C6 says of a request, between two rounds and at its end.
C6_Body(r) ==
    /\ IsPrefix(executions[r], AllQueriesOf(responses[r]))
    /\ rpc[r] = "await_query" => calls[r] = ToolRounds(responses[r])
    /\ rpc[r] \in {"await_model", "done", "failed"} =>
          /\ executions[r] = AllQueriesOf(responses[r])
          /\ calls[r] = ToolRounds(responses[r]) + 1
    /\ rpc[r] = "done" => returned[r] = FinalText(Last(responses[r]))

\* C6 (as claimed): for any sequence of responses, one execution per
\* run_database_query invocation emitted, in emission order, with the
\* invocation's query field, and one further model call after each response
\* that held tool invocations.
C6_AnyResponses == \A r \in Requests : C6_Body(r)

\* C6 (amended): the same, for the sequences of responses in which the
\* arguments of every run_database_query invocation decode to an object.
C6_DecodableResponses ==
    \A r \in Requests : AllDecodable(responses[r]) => C6_Body(r)

\* One tool request, then a final text: one execution, two model calls, and
\* the second response's text is returned.
C6_Witness ==
    \E r \in Requests :
        /\ rpc[r] = "done"
        /\ Len(responses[r]) = 2
        /\ QueriesOf(responses[r][1]) = <<"SELECT 1">>
        /\ executions[r] = <<"SELECT 1">>
        /\ calls[r] = 2
        /\ returned[r] = "Done"

ErrorMessages ==
    {PoolNotInitialized, PoolClosed, PoolExhausted, ConnectFailed, NullQueryError,
     ServerError}

IsErrorJson(s) == \E m \in ErrorMessages : s = ErrorJson(m)

\* The invocation after position i that names run_database_query, or 0.
NextInvocation(fcs, i) ==
    IF \E j \in (i + 1) .. Len(fcs) : IsQueryCall(fcs[j])
    THEN CHOOSE j \in (i + 1) .. Len(fcs) :
            /\ IsQueryCall(fcs[j])
            /\ \A k \in (i + 1) .. (j - 1) : ~IsQueryCall(fcs[k])
    ELSE 0

\* C7: a SQL execution failure never fails the request. When the executor
\* hands back an error status, run_agent appends it as the
\* function_call_output of the invocation's call_id and goes on with the
\* remaining invocations: the next run_database_query invocation is
\* executed, or, after the last one, the model is called again. (The
\* request fails at that step only if the next invocation's own arguments
\* do not decode.)
C7_ErrorIsFedBack ==
    [][\A r \in Requests :
        (/\ rpc[r] = "await_query"
         /\ tpc[r] = "returned"
         /\ IsErrorJson(ret[r])
         /\ tpc'[r] # "returned") =>
            LET fcs == function_calls[r]
                n == NextInvocation(fcs, idx[r])
            IN
            /\ QueryField(fcs[idx[r]].arguments) = query[r]
            /\ conversation_input'[r] =
                  Append(conversation_input[r],
                         [type |-> "function_call_output",
                          call_id |-> fcs[idx[r]].call_id,
                          output |-> ret[r]])
            /\ IF n = 0
               THEN rpc'[r] = "await_model" /\ calls'[r] = calls[r] + 1
               ELSE IF fcs[n].arguments \in ObjectArguments
               THEN /\ rpc'[r] = "await_query"
                    /\ executions'[r] =
                          Append(executions[r], QueryField(fcs[n].arguments))
               ELSE rpc'[r] = "failed" /\ failure'[r] \in {"JSONDecodeError", "AttributeError"}
      ]_vars

\* An error result was appended last and the model has been called again.
C7_Witness ==
    \E r \in Requests :
        /\ rpc[r] = "await_model"
        /\ calls[r] = 2
        /\ Last(conversation_input[r]) =
              [type |-> "function_call_output", call_id |-> "call_1_1",
               output |-> ErrorJson(ServerError)]

\* C8: a provider failure is not retried. When a model call of a request
\* fails, the request has failed, with no model call and no execution
\* added at that step or later, and it holds no pool connection.
C8_ProviderFailureEnds ==
    [][\A r \in Requests :
        failure'[r] = "APIError" =>
            /\ rpc'[r] = "failed"
            /\ calls'[r] = calls[r]
            /\ executions'[r] = executions[r]
            /\ conn'[r] = Null /\ tpc'[r] = "idle"
      ]_vars

\* The second model call of a request failed, after an execution.
C8_Witness ==
    \E r \in Requests :
        /\ failure[r] = "APIError"
        /\ calls[r] = 2
        /\ Len(executions[r]) = 1

\* The first run_database_query invocation whose arguments are the
\* undecodable text, or 0.
BadPosition(fcs) ==
    IF \E j \in 1 .. Len(fcs) : IsQueryCall(fcs[j]) /\ fcs[j].arguments = "{\"query\": \"SELECT"
    THEN CHOOSE j \in 1 .. Len(fcs) :
            /\ IsQueryCall(fcs[j]) /\ fcs[j].arguments = "{\"query\": \"SELECT"
            /\ \A k \in 1 .. (j - 1) :
                  ~(IsQueryCall(fcs[k]) /\ fcs[k].arguments = "{\"query\": \"SELECT")
    ELSE 0

\* The outputs in a conversation for a call_id.
OutputsFor(conversation, id) ==
    {k \in 1 .. Len(conversation) :
        /\ "type" \in DOMAIN conversation[k]
        /\ conversation[k].type = "function_call_output"
        /\ conversation[k].call_id = id}

\* C9: when the last response holds a run_database_query invocation whose
\* arguments are not valid JSON, the request fails with the decode error:
\* neither that invocation nor a later one of the response is executed or
\* answered with a tool result, the model is not called again, and the
\* statements executed earlier in the response keep their effects.
C9_DecodeFailure ==
    \A r \in Requests :
        responses[r] # <<>> =>
            LET fcs == Last(responses[r])
                j == BadPosition(fcs)
                before == AllQueriesOf(SubSeq(responses[r], 1, Len(responses[r]) - 1))
            IN
            j # 0 =>
                /\ rpc[r] \in {"await_query", "failed"}
                /\ calls[r] = Len(responses[r])
                /\ IsPrefix(executions[r], before \o QueriesOf(SubSeq(fcs, 1, j - 1)))
                /\ \A k \in j .. Len(fcs) :
                      IsQueryCall(fcs[k]) =>
                          OutputsFor(conversation_input[r], fcs[k].call_id) = {}
                /\ rpc[r] = "failed" =>
                      /\ failure[r] = "JSONDecodeError"
                      /\ executions[r] = before \o QueriesOf(SubSeq(fcs, 1, j - 1))
                      /\ conn[r] = Null /\ tpc[r] = "idle"
                /\ \A k \in 1 .. (j - 1) :
                      (/\ IsQueryCall(fcs[k])
                       /\ \E o \in OutputsFor(conversation_input[r], fcs[k].call_id) :
                             conversation_input[r][o].output = SuccessJson)
                      => QueryField(fcs[k].arguments) \in committed

\* A request failed on undecodable arguments after its DELETE was executed.
C9_Witness ==
    \E r \in Requests :
        /\ failure[r] = "JSONDecodeError"
        /\ executions[r] = <<"DELETE FROM tasks">>
        /\ "DELETE FROM tasks" \in committed
        /\ \E k \in 1 .. Len(conversation_input[r]) :
              /\ "type" \in DOMAIN conversation_input[r][k]
              /\ conversation_input[r][k].type = "function_call_output"
              /\ conversation_input[r][k].output = SuccessJson

\* What C10 says of every state: while the model is awaited, one more call
\* has been made than responses received, however many there were; a
\* request has returned exactly if its last response held no tool
\* invocation, and then with that response's text.
OnlyFinalAnswerEnds ==
    \A r \in Requests :
        /\ rpc[r] = "await_model" => calls[r] = Len(responses[r]) + 1
        /\ rpc[r] = "done" <=> (responses[r] # <<>> /\ ~HasCall(Last(responses[r])))
        /\ rpc[r] = "done" => returned[r] = FinalText(Last(responses[r]))
        /\ (\A k \in 1 .. Len(responses[r]) : HasCall(responses[r][k])) =>
              /\ rpc[r] # "done"
              /\ returned[r] = None

\* C10: the loop has no iteration bound and ends only through a response
\* without tool invocations: a request never returns while every response
\* asked for tools, it returns at once on a response that asks for none,
\* and every round of tool executions comes to its end, where the model
\* is called again unless the round failed.
C10_OnlyFinalAnswerEnds ==
    /\ []OnlyFinalAnswerEnds
    /\ \A r \in Requests :
          (rpc[r] = "await_query") ~> (rpc[r] \in {"await_model", "failed"})

\* Every model call answered in the run asked for tools, and the request
\* has made yet another call.
C10_Witness ==
    \E r \in Requests :
        /\ rpc[r] = "await_model"
        /\ Len(responses[r]) = MaxModelCalls
        /\ calls[r] = MaxModelCalls + 1
        /\ \A k \in 1 .. Len(responses[r]) : HasCall(responses[r][k])

(* ------------------------ output shape: claims ------------------------ *)

\* The keys of a fetched row, and the value under a key.
KeysOf(row) == {row[k][1] : k \in 1 .. Len(row)}

\* The rows as the JSON text shows them: per row the keys in order with
\* the text of their values.
Shown(text) ==
    CASE text = NoRowsJson -> <<>>
      [] text = SelectOneJson -> << << <<"?column?", "1">> >> >>
      [] text = SelectTwiceJson -> << << <<"a", "2">> >> >>
      [] text = ProjectsJson ->
            << << <<"id", "2">>, <<"due_date", "\"2025-02-28\"">> >>,
               << <<"id", "1">>, <<"due_date", "\"2025-01-31\"">> >> >>

ShownValue(x) == IF x.t = "int" THEN ToString(x.v) ELSE "\"" \o x.v \o "\""

C15_InitializeIdempotent == orphaned = 0

\* C16: close closes all connections of the pool when one exists, and is
\* a no-op when none exists. Whatever state the pool is in, a call of
\* close without a pool raises nothing and leaves the state as it is, and
\* a call with an open pool leaves it closed with every connection closed;
\* a pool that has been closed stays so.
C16_CloseTolerant ==
    /\ pool = Null => close = [raised |-> None, pool |-> pool]
    /\ (pool # Null /\ ~pool.closed /\ Quiescent) =>
          /\ close.raised = None
          /\ close.pool.closed
          /\ close.pool.used = 0
          /\ \A i \in 1 .. Len(close.pool.idle) : close.pool.idle[i].closed
    /\ (pool # Null /\ pool.closed) =>
          /\ close.pool = pool
          /\ \A i \in 1 .. Len(pool.idle) : pool.idle[i].closed

\* close has closed a pool that held a connection used by a query before.
C16_Witness ==
    /\ pool # Null
    /\ pool.closed
    /\ Len(pool.idle) = 1
    /\ pool.idle[1].closed /\ pool.idle[1].autocommit
    /\ Quiescent

(* --------------------- concurrent requests: claims -------------------- *)

\* The conversation records of a response: its messages and function calls.
RecordsOf(output) ==
    LET kept == SelectSeq(output, LAMBDA it : it.type \in {"message", "function_call"})
    IN [i \in 1 .. Len(kept) |->
          IF kept[i].type = "message"
          THEN [role |-> "assistant", content |-> kept[i].content]
          ELSE [type |-> "function_call", call_id |-> kept[i].call_id,
                function |-> [name |-> kept[i].name,
                              arguments |-> kept[i].arguments]]]

UserTurn(text) == [role |-> "user", content |-> text]

OutputRecord(id, result) ==
    [type |-> "function_call_output", call_id |-> id, output |-> result]

\* C11: conversation state is request-local. Under every interleaving, a
\* request's conversation changes only by that request's own step, and
\* what is added is the user turn of its own query, the records of a
\* response given to it, or the result of its own worker thread under the
\* call_id of its own pending invocation; a step of another request
\* leaves it as it is.
C11_RequestLocal ==
    [][\A r \in Clients :
        conversation_input'[r] # conversation_input[r] =>
            \/ /\ rpc[r] = "idle"
               /\ request'[r] \in AgentRequests
               /\ conversation_input'[r] = <<UserTurn(request'[r].query)>>
            \/ /\ rpc[r] = "await_model"
               /\ Len(responses'[r]) = Len(responses[r]) + 1
               /\ conversation_input'[r] =
                     conversation_input[r] \o RecordsOf(Last(responses'[r]))
            \/ /\ rpc[r] = "await_query"
               /\ tpc[r] = "returned"
               /\ \E i \in 1 .. Len(Last(responses[r])) :
                     /\ IsQueryCall(Last(responses[r])[i])
                     /\ conversation_input'[r] =
                           Append(conversation_input[r],
                                  OutputRecord(Last(responses[r])[i].call_id, ret[r]))
      ]_vars

\* Two requests in flight with different queries, whose conversations
\* hold different results.
C11_Witness ==
    \E a, b \in Clients :
        /\ a # b
        /\ rpc[a] = "await_model" /\ rpc[b] = "await_model"
        /\ conversation_input[a][1] = UserTurn(UserQuery)
        /\ conversation_input[b][1] = UserTurn(OtherQuery)
        /\ Last(conversation_input[a]) = OutputRecord("call_1_2", SelectOneJson)
        /\ Last(conversation_input[b]) = OutputRecord("call_1_2", ErrorJson(ServerError))

\* A request's query is with the database: its worker thread is inside
\* execute_sql_query_sync.
Executing(r) ==
    rpc[r] = "await_query" /\ tpc[r] \in {"get_conn", "execute", "finally"}

\* A connection can be had from the pool.
ConnectionFree ==
    pool # Null /\ ~pool.closed /\ (pool.idle # <<>> \/ pool.used < maxconn)

\* C12: a slow query of one request does not block the others. Whenever a
\* request waits for its execution to complete, every other request can
\* take its next step: arrive, receive the provider's answer or failure
\* (the answers are counted up to MaxModelCalls), start its query if a
\* connection is free, go on with its own execution, or take its result.
C12_OthersNotBlocked ==
    \A a, b \in Clients :
        (a # b /\ Executing(a)) =>
            /\ rpc[b] = "idle" =>
                  \A req \in AgentRequests : ENABLED Arrive(b, req)
            /\ (rpc[b] = "await_model" /\ answered < MaxModelCalls) =>
                  /\ \A out \in ConcOutputs : ENABLED ModelResponds(b, out)
                  /\ ENABLED ModelFails(b)
            /\ (rpc[b] = "await_query" /\ tpc[b] = "get_conn") =>
                  /\ ENABLED ExecGetConn(b)
                  /\ ConnectionFree => ENABLED (ExecGetConn(b) /\ tpc'[b] = "execute")
            /\ (rpc[b] = "await_query" /\ tpc[b] = "execute") => ENABLED ExecRun(b)
            /\ (rpc[b] = "await_query" /\ tpc[b] = "finally") => ENABLED ExecFinally(b)
            /\ (rpc[b] = "await_query" /\ tpc[b] = "returned") => ENABLED QueryReturns(b)

\* One request's statement is executing while another awaits the model,
\* and the provider may still answer.
C12_Witness ==
    \E a, b \in Clients :
        /\ a # b
        /\ rpc[a] = "await_query" /\ tpc[a] = "execute"
        /\ rpc[b] = "await_model"
        /\ answered < MaxModelCalls

\* C19: no connection outlives its single query. A request holds a pool
\* connection only while a query of its own is executing, and then one;
\* it holds none while it awaits the model, before it has arrived and
\* after it has returned or failed; the connections checked out are those
\* held by such requests, so they are never more than the requests that
\* are executing a query.
C19_ConnectionPerQuery ==
    /\ \A r \in Clients :
          /\ conn[r] # Null => (Executing(r) /\ tpc[r] \in {"execute", "finally"})
          /\ rpc[r] \in {"idle", "await_model", "done", "failed"} => conn[r] = Null
    /\ pool # Null =>
          /\ pool.used = Cardinality({r \in Clients : conn[r] # Null})
          /\ pool.used <= Cardinality({r \in Clients : Executing(r)})

\* Two requests are inside a query each, on a connection each.
C19_Witness ==
    \E a, b \in Clients :
        /\ a # b
        /\ conn[a] # Null /\ conn[b] # Null
        /\ tpc[a] = "execute" /\ tpc[b] = "finally"
        /\ pool.used = 2

(* ---------------------- conversation order: claims -------------------- *)

IsOutputRecord(it) == "type" \in DOMAIN it /\ it.type = "function_call_output"

\* A conversation with the results left out of its function_call_output
\* records.
Strip(conversation) ==
    [i \in 1 .. Len(conversation) |->
        IF IsOutputRecord(conversation[i])
        THEN [type |-> "function_call_output", call_id |-> conversation[i].call_id]
        ELSE conversation[i]]

\* The call_ids of the run_database_query invocations of a response, in
\* emission order, as stripped output records.
AnswersOf(output) ==
    LET qs == SelectSeq(output, IsQueryCall)
    IN [i \in 1 .. Len(qs) |->
          [type |-> "function_call_output", call_id |-> qs[i].call_id]]

\* What complete rounds leave in the conversation.
RECURSIVE CompleteRounds(_)
CompleteRounds(outputs) ==
    IF outputs = <<>> THEN <<>>
    ELSE RecordsOf(Head(outputs)) \o AnswersOf(Head(outputs))
         \o CompleteRounds(Tail(outputs))

\* The texts the Query Executor returns.
ExecutorTexts == ResultTexts \cup {ErrorJson(m) : m \in ErrorMessages}

\* C17: for each response with tool invocations the conversation receives
\* first the records of the response (assistant messages and function_call
\* records, in output order), then one function_call_output per
\* run_database_query invocation, in emission order, with the invocation's
\* call_id and a result of the Query Executor; the next model call has
\* been made only if all of them are there.
C17_RecordsThenOutputs ==
    \A r \in Requests :
        (responses[r] # <<>> /\ HasCall(Last(responses[r]))) =>
            LET n == Len(responses[r])
                base == <<UserTurn(request[r].query)>>
                        \o CompleteRounds(SubSeq(responses[r], 1, n - 1))
                recs == RecordsOf(responses[r][n])
                answers == AnswersOf(responses[r][n])
                conv == Strip(conversation_input[r])
                m == Len(conv) - Len(base) - Len(recs)
            IN
            /\ m \in 0 .. Len(answers)
            /\ conv = base \o recs \o SubSeq(answers, 1, m)
            /\ calls[r] \in {n, n + 1}
            /\ rpc[r] = "await_model" => calls[r] = n + 1
            /\ calls[r] = n + 1 => m = Len(answers)
            /\ \A i \in 1 .. Len(conversation_input[r]) :
                  IsOutputRecord(conversation_input[r][i]) =>
                      conversation_input[r][i].output \in ExecutorTexts

\* After a response with a message and three invocations, two of them of
\* run_database_query, the model has been called again.
C17_Witness ==
    \E r \in Requests :
        /\ rpc[r] = "await_model"
        /\ calls[r] = 2
        /\ Strip(conversation_input[r]) =
              << UserTurn(UserQuery),
                 [role |-> "assistant", content |-> "Checking"],
                 [type |-> "function_call", call_id |-> "call_1_2",
                  function |-> [name |-> "run_database_query",
                                arguments |-> "{\"query\": \"DELETE FROM tasks\"}"]],
                 [type |-> "function_call", call_id |-> "call_1_3",
                  function |-> [name |-> "lookup_weather", arguments |-> "{}"]],
                 [type |-> "function_call", call_id |-> "call_1_4",
                  function |-> [name |-> "run_database_query", arguments |-> "{}"]],
                 [type |-> "function_call_output", call_id |-> "call_1_2"],
                 [type |-> "function_call_output", call_id |-> "call_1_4"] >>

IsCallRecord(it) == "type" \in DOMAIN it /\ it.type = "function_call"

\* C20: every tool invocation recorded in the conversation is answered
\* before the model is called again: in each conversation sent to the
\* model, every function_call record, whatever its function's name, is
\* followed by exactly one function_call_output record with its call_id.
C20_EveryCallAnswered ==
    \A r \in Requests :
        \A k \in 1 .. Len(sent[r]) :
            LET input == sent[r][k].input IN
            \A i \in 1 .. Len(input) :
                IsCallRecord(input[i]) =>
                    Cardinality({j \in (i + 1) .. Len(input) :
                                    /\ IsOutputRecord(input[j])
                                    /\ input[j].call_id = input[i].call_id}) = 1

IsUserTurn(it) == "role" \in DOMAIN it /\ it.role = "user"

\* What C18 says of every state of a request that has arrived.
OneUserTurnFirst(r) ==
    LET conv == conversation_input[r] IN
    /\ conv # <<>>
    /\ conv[1] = UserTurn(request[r].query)
    /\ \A i \in 2 .. Len(conv) : ~IsUserTurn(conv[i])
    /\ sent[r] # <<>>
    /\ sent[r][1].input = <<UserTurn(request[r].query)>>
    /\ \A k \in 1 .. (Len(sent[r]) - 1) :
          IsPrefix(sent[r][k].input, sent[r][k + 1].input)
    /\ IsPrefix(Last(sent[r]).input, conv)

\* C18: the conversation of a request starts as exactly one user turn
\* with the raw request text and is append-only: its first element is
\* always that user turn, it holds no other user turn, the conversation
\* sent in one round is a prefix of the one sent in the next, and no step
\* removes or changes a record.
C18_AppendOnly ==
    /\ [](\A r \in Clients : rpc[r] # "idle" => OneUserTurnFirst(r))
    /\ [][\A r \in Clients :
            rpc[r] # "idle" => IsPrefix(conversation_input[r], conversation_input'[r])
         ]_vars

\* A request has sent its conversation a second time, grown by the
\* records and the result of a tool round.
C18_Witness ==
    \E r \in Clients :
        /\ Len(sent[r]) = 2
        /\ sent[r][1].input = <<UserTurn(OtherQuery)>>
        /\ Len(sent[r][2].input) = 4
        /\ sent[r][2].input = conversation_input[r]

(* ------------------------ statelessness: claims ----------------------- *)

\* The results a request has been given for its tool invocations.
ResultsOf(r) ==
    LET outs == SelectSeq(conversation_input[r],
                          LAMBDA it : "type" \in DOMAIN it /\ it.type = "function_call_output")
    IN [i \in 1 .. Len(outs) |-> outs[i].output]

\* The conversations of a request's model calls.
InputsOf(r) == [k \in 1 .. Len(sent[r]) |-> sent[r][k].input]

\* Two requests with the same query that were given the same responses and
\* the same results so far.
SameInputs(a, b) ==
    /\ a # b
    /\ request[a] # Null /\ request[b] # Null
    /\ request[a].query = request[b].query
    /\ responses[a] = responses[b]
    /\ ResultsOf(a) = ResultsOf(b)

\* C13 (as claimed): two such requests have made the same sequence of model
\* calls and of tool executions and have returned the same response,
\* whatever their session_id and whatever ran before them.
C13_SameModelCalls ==
    \A a, b \in Pair :
        SameInputs(a, b) =>
            /\ sent[a] = sent[b]
            /\ executions[a] = executions[b]
            /\ returned[a] = returned[b]

\* C13 (amended): two such requests have sent the same sequence of
\* conversations to the model, with the same instructions whenever the
\* calls were made in the same minute, have made the same tool executions
\* and have returned the same response.
C13_SameConversations ==
    \A a, b \in Pair :
        SameInputs(a, b) =>
            /\ InputsOf(a) = InputsOf(b)
            /\ \A k \in 1 .. Len(sent[a]) :
                  sent[a][k].instructions.date = sent[b][k].instructions.date
                      => sent[a][k] = sent[b][k]
            /\ \A k \in 1 .. Len(sent[a]) :
                  sent[a][k].instructions.schema = sent[b][k].instructions.schema
            /\ executions[a] = executions[b]
            /\ returned[a] = returned[b]

\* Two requests with the same query and different session_id, the second
\* arriving a minute after the first, went through the same tool round
\* and have made their second model call.
C13_Witness ==
    \E a, b \in Pair :
        /\ SameInputs(a, b)
        /\ request[a].session_id # request[b].session_id
        /\ sent[a][1].instructions.date < sent[b][1].instructions.date
        /\ executions[a] = <<"SELECT 1">>
        /\ ResultsOf(a) = <<SelectOneJson>>
        /\ rpc[a] = "await_model" /\ rpc[b] = "await_model"
        /\ Len(sent[a]) = 2 /\ Len(sent[b]) = 2

====
